---- MODULE Spec2Model ----
(***************************************************************************)
(* Model of app.py (Email Blaster): column detection, template rendering,  *)
(* address extraction and the "Send Now" dispatch run.                     *)
(*                                                                         *)
(* Python strings are sequences of one-character strings, so that          *)
(* normalize, the substring tests, str.replace and re.split are computed   *)
(* character by character as the code computes them.                       *)
(***************************************************************************)
EXTENDS Integers, Sequences, FiniteSets

VARIABLES
    df,               \* the uploaded dataset (present = FALSE models None)
    detected_fields,  \* dict field -> column, as a function
    email_user, email_pass, subject, body_html, uploaded_files,  \* form inputs
    pc,               \* position of the script run
    error,            \* text of the st.error shown before st.stop(), "" if none
    preview,          \* <<>> or <<rendered preview>>
    temp_paths,       \* list of staged temporary files
    disk,             \* temporary files that exist in temporary storage
    logs, total, count, reports,   \* dispatch loop locals and progress reports
    i, body, emails, j,            \* current row (1-based), its body, addresses
    sends,            \* calls made to yag.send, with their outcome
    exported          \* the log handed to export_logs_excel

vars == <<df, detected_fields, email_user, email_pass, subject, body_html,
          uploaded_files, pc, error, preview, temp_paths, disk, logs, total,
          count, reports, i, body, emails, j, sends, exported>>

-----------------------------------------------------------------------------
(* Bounds of the model *)

MaxCols == 2
MaxRows == 2
MaxFiles == 2

-----------------------------------------------------------------------------
(* Strings *)

UpperChars == <<"A","B","C","D","E","F","G","H","I","J","K","L","M",
                "N","O","P","Q","R","S","T","U","V","W","X","Y","Z">>
LowerChars == <<"a","b","c","d","e","f","g","h","i","j","k","l","m",
                "n","o","p","q","r","s","t","u","v","w","x","y","z">>
Digits == {"0","1","2","3","4","5","6","7","8","9"}
AlNum == {LowerChars[n] : n \in DOMAIN LowerChars} \cup Digits
Whitespace == {" ", "\t", "\n"}

\* str.lower() on one character
Lower(c) ==
    IF \E n \in DOMAIN UpperChars : UpperChars[n] = c
    THEN LowerChars[CHOOSE n \in DOMAIN UpperChars : UpperChars[n] = c]
    ELSE c

RECURSIVE Filter(_, _)
Filter(s, keep) ==
    IF s = <<>> THEN <<>>
    ELSE (IF Head(s) \in keep THEN <<Head(s)>> ELSE <<>>) \o Filter(Tail(s), keep)

\* re.sub(r"[^a-z0-9]", "", text.lower())
normalize(text) == Filter([n \in DOMAIN text |-> Lower(text[n])], AlNum)

\* Python's  needle in hay
Contains(hay, needle) ==
    \E n \in 0..(Len(hay) - Len(needle)) : SubSeq(hay, n + 1, n + Len(needle)) = needle

\* not s.strip()
IsBlank(s) == \A n \in DOMAIN s : s[n] \in Whitespace

-----------------------------------------------------------------------------
(* Field detection *)

FIELD_MAP == <<
    [field |-> <<"e","m","a","i","l">>,
     aliases |-> << <<"e","m","a","i","l">>, <<"m","a","i","l">>,
                    <<"e","-","m","a","i","l">>,
                    <<"e","m","a","i","l","a","d","d","r","e","s","s">>,
                    <<"e","m","a","i","l","i","d">> >>],
    [field |-> <<"n","a","m","e">>,
     aliases |-> << <<"n","a","m","e">>, <<"f","u","l","l","n","a","m","e">>,
                    <<"f","u","l","l"," ","n","a","m","e">>, <<"n","a","m","a">>,
                    <<"n","a","m","a"," ","l","e","n","g","k","a","p">> >>],
    [field |-> <<"c","o","m","p","a","n","y">>,
     aliases |-> << <<"c","o","m","p","a","n","y">>,
                    <<"o","r","g","a","n","i","z","a","t","i","o","n">>,
                    <<"o","r","g">>,
                    <<"p","e","r","u","s","a","h","a","a","n">>,
                    <<"i","n","s","t","a","n","s","i">> >>],
    [field |-> <<"p","o","s","i","t","i","o","n">>,
     aliases |-> << <<"p","o","s","i","t","i","o","n">>,
                    <<"j","o","b","t","i","t","l","e">>, <<"t","i","t","l","e">>,
                    <<"j","a","b","a","t","a","n">>, <<"r","o","l","e">> >>] >>

EmailToken == <<"e","m","a","i","l">>
FieldIndex(f) == CHOOSE n \in DOMAIN FIELD_MAP : FIELD_MAP[n].field = f

\* d[k] = v on a dict kept as a sequence of [norm, real] items in insertion
\* order: an existing key keeps its place and takes the new value
DictPut(d, key, v) ==
    IF \E n \in DOMAIN d : d[n].norm = key
    THEN [n \in DOMAIN d |-> IF d[n].norm = key THEN [norm |-> key, real |-> v] ELSE d[n]]
    ELSE Append(d, [norm |-> key, real |-> v])

RECURSIVE DictOfFirst(_, _)
DictOfFirst(cols, n) ==
    IF n = 0 THEN <<>>
    ELSE DictPut(DictOfFirst(cols, n - 1), normalize(cols[n]), cols[n])

\* {normalize(c): c for c in df.columns}
normalized_cols(cols) == DictOfFirst(cols, Len(cols))

\* the hard match for email: indexes of the items whose key is "email"
HardMatches(ncols) == {n \in DOMAIN ncols : ncols[n].norm = EmailToken}

\* alias_norm in norm or norm in alias_norm
AliasHit(alias, norm) ==
    LET alias_norm == normalize(alias)
    IN Contains(norm, alias_norm) \/ Contains(alias_norm, norm)

AliasMatches(alias, ncols) == {n \in DOMAIN ncols : AliasHit(alias, ncols[n].norm)}

Min(S) == CHOOSE x \in S : \A y \in S : x <= y

\* the alias loop: the first alias that some item matches, then the first such item
AliasDetect(aliases, ncols) ==
    LET hits == {a \in DOMAIN aliases : AliasMatches(aliases[a], ncols) # {}}
    IN IF hits = {} THEN <<>>
       ELSE << ncols[Min(AliasMatches(aliases[Min(hits)], ncols))].real >>

\* DetectField without the hard match for email
DetectFieldAliasOnly(n, ncols) == AliasDetect(FIELD_MAP[n].aliases, ncols)

\* one round of the loop over FIELD_MAP: <<>> or <<the detected column>>
DetectField(n, ncols) ==
    IF FIELD_MAP[n].field = EmailToken /\ HardMatches(ncols) # {}
    THEN << ncols[Min(HardMatches(ncols))].real >>
    ELSE AliasDetect(FIELD_MAP[n].aliases, ncols)

detect_columns(cols) ==
    LET ncols == normalized_cols(cols)
        found == {n \in DOMAIN FIELD_MAP : DetectField(n, ncols) # <<>>}
    IN [f \in {FIELD_MAP[n].field : n \in found} |->
            DetectField(FieldIndex(f), ncols)[1]]

-----------------------------------------------------------------------------
(* Template rendering *)

NaN == <<"NaN">>                       \* an empty spreadsheet cell
isna(v) == v = NaN

\* "" if pd.isna(v) else str(v)
CellText(v) == IF isna(v) THEN <<>> ELSE v

\* row[col]: rows hold their cells in column order
RowGet(columns, row, col) == row[CHOOSE n \in DOMAIN columns : columns[n] = col]

\* f"{{{field}}}"
Token(f) == <<"{">> \o f \o <<"}">>

\* str.replace(old, new), old not empty: every occurrence, left to right
RECURSIVE Replace(_, _, _)
Replace(s, old, new) ==
    IF Len(s) < Len(old) THEN s
    ELSE IF SubSeq(s, 1, Len(old)) = old
         THEN new \o Replace(SubSeq(s, Len(old) + 1, Len(s)), old, new)
         ELSE <<Head(s)>> \o Replace(Tail(s), old, new)

\* the loop  for field, col in detected_fields.items(): text = text.replace(...)
\* over the first n fields of FIELD_MAP (the dict's insertion order)
RECURSIVE RenderFields(_, _, _, _, _)
RenderFields(text, columns, row, detected, n) ==
    IF n = 0 THEN text
    ELSE LET prev == RenderFields(text, columns, row, detected, n - 1)
             f == FIELD_MAP[n].field
         IN IF f \in DOMAIN detected
            THEN Replace(prev, Token(f), CellText(RowGet(columns, row, detected[f])))
            ELSE prev

Render(template, columns, row, detected) ==
    RenderFields(template, columns, row, detected, Len(FIELD_MAP))

-----------------------------------------------------------------------------
(* Address extraction *)

Delims == {"/", ",", ";", " "}

\* str(v) of a cell
CellStr(v) == IF isna(v) THEN <<"n","a","n">> ELSE v

\* re.split(r"[\/,; ]+", s)
RECURSIVE SplitFrom(_, _, _)
SplitFrom(s, cur, inDelim) ==
    IF s = <<>> THEN <<cur>>
    ELSE IF Head(s) \in Delims
         THEN IF inDelim THEN SplitFrom(Tail(s), cur, TRUE)
              ELSE <<cur>> \o SplitFrom(Tail(s), <<>>, TRUE)
         ELSE SplitFrom(Tail(s), Append(cur, Head(s)), FALSE)

re_split(s) == SplitFrom(s, <<>>, FALSE)

HasAt(e) == \E n \in DOMAIN e : e[n] = "@"

\* [e for e in raw_emails if "@" in e]
Extract(cell) == SelectSeq(re_split(CellStr(cell)), HasAt)

-----------------------------------------------------------------------------
(* Inputs *)

ColEmail == <<"E","m","a","i","l">>
ColEMail == <<"E","-","m","a","i","l">>
ColMail == <<"m","a","i","l">>
ColName == <<"N","a","m","e">>
ColCompany == <<"C","o","m","p","a","n","y">>
ColCompanyName == <<"C","o","m","p","a","n","y"," ","N","a","m","e">>
ColTitle == <<"T","i","t","l","e">>
ColHash == <<"#">>
ColContact == <<"C","o","n","t","a","c","t">>

ColumnPool == {ColEmail, ColEMail, ColMail, ColName, ColCompanyName, ColTitle, ColHash}

\* column headers of a sheet: pandas keeps them distinct
ColumnSeqs ==
    {c \in UNION {[1..n -> ColumnPool] : n \in 0..MaxCols} :
        \A a, b \in DOMAIN c : a # b => c[a] # c[b]}

Layouts == { <<ColEmail, ColName, ColCompany>>, <<ColContact, ColName, ColCompany>> }

AddrA == <<"a","@","x">>
AddrB == <<"b","@","y">>

RowPool == {
    << AddrA, <<"A","n","n">>, NaN >>,
    << AddrA \o <<"/">> \o AddrB \o <<";"," ","c">>,
       <<"{","c","o","m","p","a","n","y","}">>, <<"X">> >>,
    << <<" "," ">>, <<"B","o">>, <<"X">> >>,
    << NaN, NaN, <<"X">> >> }

RowSeqs == UNION {[1..n -> RowPool] : n \in 0..MaxRows}

BodyPool == {
    <<" ">>,
    <<"{","n","a","m","e","}"," ","{","c","o","m","p","a","n","y","}",
      "{","p","o","s","i","t","i","o","n","}">> }

SubjectPool == { <<>>, <<"H","i"," ","{","n","a","m","e","}">> }

CredPool == {
    [user |-> <<>>, pass |-> <<"p","w">>],
    [user |-> <<"m","e">>, pass |-> <<>>],
    [user |-> <<"m","e">>, pass |-> <<"p","w">>] }

FileLists == {[n \in 1..m |-> n] : m \in 0..MaxFiles}

ErrMsgs == {"Recipient refused"}

NoDataset == [present |-> FALSE, columns |-> <<>>, rows |-> <<>>]
Dataset(c, r) == [present |-> TRUE, columns |-> c, rows |-> r]
NotExported == [done |-> FALSE, rows |-> <<>>]

-----------------------------------------------------------------------------
(* The script run *)

\* state shared by both initial conditions: nothing has run yet
Fresh ==
    /\ detected_fields = <<>>
    /\ pc = "load"
    /\ error = ""
    /\ preview = <<>>
    /\ temp_paths = <<>>
    /\ disk = {}
    /\ logs = <<>>
    /\ total = 0
    /\ count = 0
    /\ reports = <<>>
    /\ i = 0
    /\ body = <<>>
    /\ emails = <<>>
    /\ j = 0
    /\ sends = <<>>
    /\ exported = NotExported

\* the form as the user filled it in
Init ==
    /\ df \in {NoDataset} \cup {Dataset(c, r) : c \in Layouts, r \in RowSeqs}
    /\ \E cred \in CredPool : email_user = cred.user /\ email_pass = cred.pass
    /\ subject \in SubjectPool
    /\ body_html \in BodyPool
    /\ uploaded_files \in FileLists
    /\ Fresh

\* sheets with arbitrary headers and an otherwise complete form
InitDetect ==
    /\ df \in {Dataset(c, <<>>) : c \in ColumnSeqs}
    /\ email_user = <<"m","e">>
    /\ email_pass = <<"p","w">>
    /\ subject = <<"H","i">>
    /\ body_html = <<"H","i">>
    /\ uploaded_files = <<>>
    /\ Fresh

inputs == <<df, email_user, email_pass, subject, body_html, uploaded_files>>
loopvars == <<logs, total, count, reports, i, body, emails, j, sends>>

\* section 3: df = pd.read_excel(...); detected_fields = detect_columns(df)
ReadExcel ==
    /\ pc = "load"
    /\ detected_fields' = IF df.present THEN detect_columns(df.columns) ELSE <<>>
    /\ pc' = "ready"
    /\ UNCHANGED <<inputs, error, preview, temp_paths, disk, loopvars, exported>>

\* section 4: the Show Preview button
ShowPreview ==
    /\ pc = "ready"
    /\ IF IsBlank(body_html)
       THEN error' = "Email body is empty." /\ preview' = <<>>
       ELSE /\ error' = ""
            /\ preview' = IF df.present /\ Len(df.rows) > 0
                          THEN << Render(body_html, df.columns, df.rows[1], detected_fields) >>
                          ELSE << body_html >>
    /\ UNCHANGED <<inputs, detected_fields, pc, temp_paths, disk, loopvars, exported>>

\* ValidationError without the subject check
ValidationErrorNoSubject ==
    IF ~df.present THEN "Please upload an Excel file."
    ELSE IF EmailToken \notin DOMAIN detected_fields THEN "No email column detected."
    ELSE IF email_user = <<>> \/ email_pass = <<>> THEN "Email + App Password required."
    ELSE IF IsBlank(body_html) THEN "Email body cannot be empty."
    ELSE ""

\* the message of the first validation that fails, "" when all pass
ValidationError ==
    IF ~df.present THEN "Please upload an Excel file."
    ELSE IF EmailToken \notin DOMAIN detected_fields THEN "No email column detected."
    ELSE IF email_user = <<>> \/ email_pass = <<>> THEN "Email + App Password required."
    ELSE IF IsBlank(subject) THEN "Subject cannot be empty."
    ELSE IF IsBlank(body_html) THEN "Email body cannot be empty."
    ELSE ""

\* section 6: the Send Now button, up to temp_paths = []
SendNowValidate ==
    /\ pc = "ready"
    /\ preview' = <<>>
    /\ error' = ValidationError
    /\ pc' = IF ValidationError = "" THEN "staging" ELSE "stopped"
    /\ temp_paths' = <<>>
    /\ UNCHANGED <<inputs, detected_fields, disk, loopvars, exported>>

\* the uploaded file the staging loop is at
NextFile == uploaded_files[Len(temp_paths) + 1]

\* one round of the staging loop: the temporary copy is written and kept
StageOk ==
    /\ pc = "staging"
    /\ Len(temp_paths) < Len(uploaded_files)
    /\ temp_paths' = Append(temp_paths, NextFile)
    /\ disk' = disk \cup {NextFile}
    /\ UNCHANGED <<inputs, detected_fields, pc, error, preview, loopvars, exported>>

\* one round of the staging loop raises, before or after NamedTemporaryFile
\* (delete=False) created the file: st.error, st.stop()
StageFail ==
    /\ pc = "staging"
    /\ Len(temp_paths) < Len(uploaded_files)
    /\ \E created \in BOOLEAN : disk' = IF created THEN disk \cup {NextFile} ELSE disk
    /\ error' = "Attachment error."
    /\ pc' = "stopped"
    /\ UNCHANGED <<inputs, detected_fields, preview, temp_paths, loopvars, exported>>

\* yagmail.SMTP(...) returns; the loop's locals are set up
ConnectOk ==
    /\ pc = "staging"
    /\ Len(temp_paths) = Len(uploaded_files)
    /\ logs' = <<>>
    /\ total' = Len(df.rows)
    /\ count' = 0
    /\ reports' = <<>>
    /\ i' = 1
    /\ pc' = "loop"
    /\ UNCHANGED <<inputs, detected_fields, error, preview, temp_paths, disk,
                   body, emails, j, sends, exported>>

\* yagmail.SMTP(...) raises: st.error, st.stop()
ConnectFail ==
    /\ pc = "staging"
    /\ Len(temp_paths) = Len(uploaded_files)
    /\ error' = "SMTP Login Failed"
    /\ pc' = "stopped"
    /\ UNCHANGED <<inputs, detected_fields, preview, temp_paths, disk, loopvars, exported>>

\* SkipRecord with the status and details columns swapped
SkipRecordSwapped(idx) ==
    [row |-> idx, email |-> <<>>, status |-> "SKIPPED", details |-> "NO_EMAIL"]

\* the log rows the loop appends (the timestamp column is left out)
SkipRecord(idx) == [row |-> idx, email |-> <<>>, status |-> "NO_EMAIL", details |-> "SKIPPED"]
SentRecord(idx, addr) == [row |-> idx, email |-> addr, status |-> "SENT", details |-> "OK"]
FailedRecord(idx, addr, err) == [row |-> idx, email |-> addr, status |-> "FAILED", details |-> err]

\* SendCall with the subject rendered as the body is
SendCallRendered(addr, result) ==
    [to |-> addr,
     subject |-> Render(subject, df.columns, df.rows[i], detected_fields),
     contents |-> body, attachments |-> temp_paths,
     row |-> i - 1, result |-> result]

\* the arguments of yag.send for one address; row and result are kept with
\* the call to tell which row made it and how it ended
SendCall(addr, result) ==
    [to |-> addr, subject |-> subject, contents |-> body, attachments |-> temp_paths,
     row |-> i - 1, result |-> result]

\* FinishRow reporting the number of records instead of the number of rows
FinishRowPerRecord ==
    /\ count' = Len(logs')
    /\ reports' = Append(reports, <<Len(logs'), total>>)
    /\ i' = i + 1
    /\ pc' = "loop"

\* count += 1; progress.progress(count / total); on to the next row
FinishRow ==
    /\ count' = count + 1
    /\ reports' = Append(reports, <<count + 1, total>>)
    /\ i' = i + 1
    /\ pc' = "loop"

\* the head of the loop body: render, extract, and the no-address branch
RowStart ==
    /\ pc = "loop"
    /\ i <= total
    /\ LET row == df.rows[i]
           es == Extract(RowGet(df.columns, row, detected_fields[EmailToken]))
       IN /\ body' = Render(body_html, df.columns, row, detected_fields)
          /\ emails' = es
          /\ IF es = <<>>
             THEN /\ logs' = Append(logs, SkipRecord(i - 1))
                  /\ FinishRow
                  /\ j' = j
             ELSE /\ j' = 1
                  /\ pc' = "send"
                  /\ UNCHANGED <<logs, count, reports, i>>
    /\ UNCHANGED <<inputs, detected_fields, error, preview, temp_paths, disk,
                   total, sends, exported>>

\* after one address: the next address, or the end of the row
AfterSend ==
    /\ j' = j + 1
    /\ IF j < Len(emails) THEN UNCHANGED <<count, reports, i, pc>> ELSE FinishRow

\* yag.send returns
SendOk ==
    /\ pc = "send"
    /\ sends' = Append(sends, SendCall(emails[j], "OK"))
    /\ logs' = Append(logs, SentRecord(i - 1, emails[j]))
    /\ AfterSend
    /\ UNCHANGED <<inputs, detected_fields, error, preview, temp_paths, disk,
                   total, body, emails, exported>>

\* SendFail with the try around the address loop: a failure ends the row
SendFailAbortsRow ==
    /\ pc = "send"
    /\ \E err \in ErrMsgs :
          /\ sends' = Append(sends, SendCall(emails[j], err))
          /\ logs' = Append(logs, FailedRecord(i - 1, emails[j], err))
    /\ j' = j + 1
    /\ FinishRow
    /\ UNCHANGED <<inputs, detected_fields, error, preview, temp_paths, disk,
                   total, body, emails, exported>>

\* yag.send raises err: the except branch
SendFail ==
    /\ pc = "send"
    /\ \E err \in ErrMsgs :
          /\ sends' = Append(sends, SendCall(emails[j], err))
          /\ logs' = Append(logs, FailedRecord(i - 1, emails[j], err))
    /\ AfterSend
    /\ UNCHANGED <<inputs, detected_fields, error, preview, temp_paths, disk,
                   total, body, emails, exported>>

\* export_logs_excel(logs) and the download button
ExportOk ==
    /\ pc = "loop"
    /\ i > total
    /\ exported' = [done |-> TRUE, rows |-> logs]
    /\ pc' = "cleanup"
    /\ UNCHANGED <<inputs, detected_fields, error, preview, temp_paths, disk, loopvars>>

\* export_logs_excel or open() raises: the script run ends with the exception
ExportFail ==
    /\ pc = "loop"
    /\ i > total
    /\ pc' = "crashed"
    /\ UNCHANGED <<inputs, detected_fields, error, preview, temp_paths, disk,
                   loopvars, exported>>

Range(s) == {s[n] : n \in DOMAIN s}

\* the cleanup loop: os.unlink on every path, a failing unlink is passed over
Cleanup ==
    /\ pc = "cleanup"
    /\ \E kept \in SUBSET Range(temp_paths) : disk' = (disk \ Range(temp_paths)) \cup kept
    /\ pc' = "done"
    /\ UNCHANGED <<inputs, detected_fields, error, preview, temp_paths, loopvars, exported>>

Next ==
    \/ ReadExcel
    \/ ShowPreview
    \/ SendNowValidate
    \/ StageOk
    \/ StageFail
    \/ ConnectOk
    \/ ConnectFail
    \/ RowStart
    \/ SendOk
    \/ SendFail
    \/ ExportOk
    \/ ExportFail
    \/ Cleanup

Spec == Init /\ [][Next]_vars

NextDetect == ReadExcel \/ SendNowValidate

SpecDetect == InitDetect /\ [][NextDetect]_vars

-----------------------------------------------------------------------------
(* Properties of detect_columns (checked under SpecDetect) *)

Detected == pc # "load"
HasEmail == EmailToken \in DOMAIN detected_fields

\* columns whose normalized name is exactly "email", by position in the sheet
ExactEmailColumns == {n \in DOMAIN df.columns : normalize(df.columns[n]) = EmailToken}

\* columns that alias number a of field number fn matches, by position in the sheet
AliasColumns(fn, a) ==
    {n \in DOMAIN df.columns : AliasHit(FIELD_MAP[fn].aliases[a], normalize(df.columns[n]))}

\* aliases of field number fn that match some column
LiveAliases(fn) == {a \in DOMAIN FIELD_MAP[fn].aliases : AliasColumns(fn, a) # {}}

\* C1: detect_columns never maps two different semantic fields to the same
\* column.
C1_DistinctColumns ==
    Detected =>
        \A f, g \in DOMAIN detected_fields :
            f # g => detected_fields[f] # detected_fields[g]

FirstMatch(fn) ==
    IF FIELD_MAP[fn].field = EmailToken /\ ExactEmailColumns # {}
    THEN df.columns[Min(ExactEmailColumns)]
    ELSE df.columns[Min(AliasColumns(fn, Min(LiveAliases(fn))))]

\* C9: every detected field maps to the first qualifying column in dataset
\* column order, also when two columns normalize to the same string.
C9_FirstInColumnOrder ==
    Detected =>
        \A f \in DOMAIN detected_fields : detected_fields[f] = FirstMatch(FieldIndex(f))

-----------------------------------------------------------------------------
(* Properties of the Send Now run (checked under Spec) *)

Ended == pc \in {"stopped", "crashed", "done"}
LoopDone == pc \in {"cleanup", "done", "crashed"}
InRun == pc \in {"loop", "send", "cleanup", "done", "crashed"}

\* the addresses of row r (1-based), in extraction order
RowAddrs(r) ==
    Extract(RowGet(df.columns, df.rows[r], detected_fields[EmailToken]))

\* the sends due for rows 1..r, one per address, in order
RECURSIVE Attempts(_)
Attempts(r) ==
    IF r = 0 THEN <<>>
    ELSE Attempts(r - 1) \o [n \in DOMAIN RowAddrs(r) |-> [row |-> r - 1, to |-> RowAddrs(r)[n]]]

\* the rows every address of which has been dealt with
RowsFinished == IF InRun THEN i - 1 ELSE 0

IsAttempt(rec) == rec.status # "NO_EMAIL"

\* C3: the send capability is called exactly once per extracted address, in
\* row order and extraction order, with one record per call: SENT when it
\* returned, FAILED with the failure's message when it raised. A failure
\* stops neither the row nor the run, and nothing is sent twice.
C3_OncePerAddress ==
    /\ ~InRun => sends = <<>>
    /\ InRun =>
          LET due == IF pc = "send"
                     THEN Attempts(i - 1) \o
                          [n \in 1..(j - 1) |-> [row |-> i - 1, to |-> RowAddrs(i)[n]]]
                     ELSE Attempts(i - 1)
              tried == SelectSeq(logs, IsAttempt)
          IN /\ [k \in DOMAIN sends |-> [row |-> sends[k].row, to |-> sends[k].to]] = due
             /\ Len(tried) = Len(sends)
             /\ \A k \in DOMAIN sends :
                   /\ tried[k].row = sends[k].row
                   /\ tried[k].email = sends[k].to
                   /\ sends[k].result = "OK" =>
                          tried[k].status = "SENT" /\ tried[k].details = "OK"
                   /\ sends[k].result # "OK" =>
                          tried[k].status = "FAILED" /\ tried[k].details = sends[k].result
             /\ pc = "send" => j \in DOMAIN RowAddrs(i)
             /\ LoopDone => i = Len(df.rows) + 1

\* C3 witness: a finished run in which a send failed and the next address of
\* the same row, and a later row, were still attempted.
C3_FailureThenMore ==
    /\ pc = "done"
    /\ \E k \in DOMAIN sends :
          /\ sends[k].result # "OK"
          /\ k + 2 \in DOMAIN sends
          /\ sends[k + 1].row = sends[k].row
          /\ sends[k + 2].row > sends[k].row

\* the log rows of row r (1-based)
RowLogs(r) == {k \in DOMAIN logs : logs[k].row = r - 1}

\* rows without an address that the loop has passed
SkippedRows == {r \in 1..RowsFinished : RowAddrs(r) = <<>>}

\* C4 as stated: a row without an address gets exactly one record, with an
\* empty address and status SKIPPED_NO_ADDRESS, and no send; every status is
\* one of SENT, FAILED, SKIPPED_NO_ADDRESS.
C4_SkippedNoAddress ==
    /\ \A k \in DOMAIN logs : logs[k].status \in {"SENT", "FAILED", "SKIPPED_NO_ADDRESS"}
    /\ \A r \in SkippedRows :
          /\ Cardinality(RowLogs(r)) = 1
          /\ \A k \in RowLogs(r) :
                logs[k].email = <<>> /\ logs[k].status = "SKIPPED_NO_ADDRESS"
          /\ \A k \in DOMAIN sends : sends[k].row # r - 1

\* C4 amended: a row without an address gets exactly one record, with an
\* empty address, status NO_EMAIL and detail SKIPPED, and no send, and the
\* loop goes on; every status is one of SENT, FAILED, NO_EMAIL.
C4_NoEmailSkipped ==
    /\ \A k \in DOMAIN logs : logs[k].status \in {"SENT", "FAILED", "NO_EMAIL"}
    /\ \A r \in SkippedRows :
          /\ Cardinality(RowLogs(r)) = 1
          /\ \A k \in RowLogs(r) :
                /\ logs[k].email = <<>>
                /\ logs[k].status = "NO_EMAIL"
                /\ logs[k].details = "SKIPPED"
          /\ \A k \in DOMAIN sends : sends[k].row # r - 1
    /\ InRun => \A r \in 1..RowsFinished : RowLogs(r) # {}

\* C4 witness: a finished run that skipped a row and sent for a later one.
C4_SkipThenSend ==
    /\ pc = "done"
    /\ \E r \in SkippedRows : \E k \in DOMAIN sends : sends[k].row > r - 1

\* C5: when the run has ended, by whatever path, no staged temporary file is
\* left in temporary storage.
C5_TempFilesDeleted == Ended => disk = {}

\* a fatal precondition, stated on the inputs
FatalPrecondition ==
    \/ ~df.present
    \/ ~HasEmail
    \/ email_user = <<>>
    \/ email_pass = <<>>
    \/ IsBlank(subject)
    \/ IsBlank(body_html)

\* C6: with a fatal precondition, a staging failure or a login failure the
\* run stops, and a stopped run has made no send, produced no record and
\* exported nothing; a run that has logged anything (a failed send included)
\* is not stopped.
C6_FatalStopsBeforeSend ==
    /\ (pc \notin {"load", "ready"} /\ FatalPrecondition) => pc = "stopped"
    /\ error \in {"Attachment error.", "SMTP Login Failed"} => pc = "stopped"
    /\ pc = "stopped" => sends = <<>> /\ logs = <<>> /\ ~exported.done /\ error # ""
    /\ (\E k \in DOMAIN logs : logs[k].status = "FAILED") => InRun
    /\ exported.done => exported.rows = logs /\ i = total + 1

\* C6 witness: staging failed on a later file, after an earlier one was staged.
C6_StoppedInStaging ==
    /\ pc = "stopped"
    /\ error = "Attachment error."
    /\ temp_paths # <<>>

\* the rows all of whose records are in the log
RowsLogged ==
    {r \in DOMAIN df.rows :
        Cardinality(RowLogs(r)) = IF RowAddrs(r) = <<>> THEN 1 ELSE Len(RowAddrs(r))}

\* C7: progress is reported once per finished row as count / total: the
\* reports are 1/total, 2/total, ..., the count is the number of rows whose
\* addresses were all dealt with, never above total, and total at the end.
C7_ProgressPerRow ==
    InRun =>
        /\ total = Len(df.rows)
        /\ count <= total
        /\ count = Cardinality(RowsLogged)
        /\ reports = [n \in 1..count |-> <<n, total>>]
        /\ LoopDone => count = total

\* C7 witness: a finished run whose rows produced more records than rows.
C7_MoreRecordsThanRows ==
    /\ pc = "done"
    /\ total >= 2
    /\ Len(logs) > total
    /\ reports[Len(reports)] = <<total, total>>

\* C8 as stated: the subject of every send is the subject template rendered
\* with the values of the row it is sent for.
C8_SubjectRendered ==
    \A k \in DOMAIN sends :
        sends[k].subject =
            Render(subject, df.columns, df.rows[sends[k].row + 1], detected_fields)

\* C8 amended: the subject of every send is the subject text as entered, its
\* placeholders not replaced, the same for every row and address.
C8_SubjectVerbatim ==
    \A k \in DOMAIN sends : sends[k].subject = subject

\* C8 witness: a send whose subject holds a placeholder that rendering with
\* the row would have replaced.
C8_PlaceholderInSentSubject ==
    \E k \in DOMAIN sends :
        /\ Contains(sends[k].subject, Token(FIELD_MAP[2].field))
        /\ Render(subject, df.columns, df.rows[sends[k].row + 1], detected_fields) # subject

\* the replacement of the {field} tokens of the template itself, all at once
RECURSIVE SimulRender(_, _, _, _)
SimulRender(t, columns, row, detected) ==
    IF t = <<>> THEN <<>>
    ELSE LET at == {f \in DOMAIN detected :
                       Len(t) >= Len(Token(f)) /\ SubSeq(t, 1, Len(Token(f))) = Token(f)}
         IN IF at = {}
            THEN <<Head(t)>> \o SimulRender(Tail(t), columns, row, detected)
            ELSE LET f == CHOOSE f \in at : TRUE
                 IN CellText(RowGet(columns, row, detected[f])) \o
                    SimulRender(SubSeq(t, Len(Token(f)) + 1, Len(t)), columns, row, detected)

\* C10: the body sent for a row, and the preview, are the original template
\* with every {field} token of a mapped field replaced at once, so a value put
\* in for one field is not itself replaced for another.
C10_SimultaneousSubstitution ==
    /\ \A k \in DOMAIN sends :
          sends[k].contents =
              SimulRender(body_html, df.columns, df.rows[sends[k].row + 1], detected_fields)
    /\ (preview # <<>> /\ df.present /\ df.rows # <<>>) =>
          preview[1] = SimulRender(body_html, df.columns, df.rows[1], detected_fields)

====
